---- MODULE Spec2Model ----
(***************************************************************************)
(* Model of dashboard.py: the resource discovery and tier classification   *)
(* of the 3-tier dashboard.  One request (do_GET on the root path) runs    *)
(* generate_html, which issues the five describe calls one after the       *)
(* other, filters the records by VPC scope, classifies them into tier      *)
(* buckets and computes the totals and the representative VPC / gateway.   *)
(*                                                                         *)
(* Python strings are TLA+ strings; lower(), the substring test `in` and   *)
(* str() are computed character by character.  A Python dict is a record;  *)
(* a key that may be missing is modelled by the value None.                *)
(***************************************************************************)
EXTENDS Integers, Sequences, FiniteSets, TLC

(***************************************************************************)
(* Bounds of the inventories the describe calls may return.                *)
(***************************************************************************)
MaxVpcs == 2
MaxSubnets == 1
MaxInstances == 1
MaxGroups == 2
MaxRules == 2
MaxGateways == 1

\* Python's None, for a missing key read with .get() and for a failed call.
None == "None"

(***************************************************************************)
(* String primitives.                                                      *)
(***************************************************************************)
\* str.lower() on one character (the letters the inventories use).
LowerChar(c) ==
    CASE c = "A" -> "a" [] c = "B" -> "b" [] c = "C" -> "c" [] c = "D" -> "d"
      [] c = "E" -> "e" [] c = "F" -> "f" [] c = "G" -> "g" [] c = "H" -> "h"
      [] c = "I" -> "i" [] c = "J" -> "j" [] c = "K" -> "k" [] c = "L" -> "l"
      [] c = "M" -> "m" [] c = "N" -> "n" [] c = "O" -> "o" [] c = "P" -> "p"
      [] c = "Q" -> "q" [] c = "R" -> "r" [] c = "S" -> "s" [] c = "T" -> "t"
      [] c = "U" -> "u" [] c = "V" -> "v" [] c = "W" -> "w" [] c = "X" -> "x"
      [] c = "Y" -> "y" [] c = "Z" -> "z" [] OTHER -> c

\* name.lower()
RECURSIVE Lower(_)
Lower(s) ==
    IF Len(s) = 0 THEN ""
    ELSE LowerChar(SubSeq(s, 1, 1)) \o Lower(SubSeq(s, 2, Len(s)))

\* Python's `sub in s` on strings.
Contains(sub, s) ==
    \E i \in 1..(Len(s) - Len(sub) + 1) : SubSeq(s, i, i + Len(sub) - 1) = sub

\* One decimal digit of str(n).
Digit(d) ==
    CASE d = 0 -> "0" [] d = 1 -> "1" [] d = 2 -> "2" [] d = 3 -> "3"
      [] d = 4 -> "4" [] d = 5 -> "5" [] d = 6 -> "6" [] d = 7 -> "7"
      [] d = 8 -> "8" [] d = 9 -> "9"

RECURSIVE StrNat(_)
StrNat(n) == IF n < 10 THEN Digit(n) ELSE StrNat(n \div 10) \o Digit(n % 10)

\* str(port) for an int.
Str(n) == IF n < 0 THEN "-" \o StrNat(0 - n) ELSE StrNat(n)

(***************************************************************************)
(* Tags: a sequence of [Key, Value] records.  The loops                    *)
(*     for tag in x.get("Tags", []): if tag["Key"] == k: v = tag["Value"]  *)
(* leave in v the value of the last tag with that key, or the initial      *)
(* value when there is none.                                               *)
(***************************************************************************)
RECURSIVE TagLoop(_, _, _)
TagLoop(tags, key, v) ==
    IF tags = <<>> THEN v
    ELSE TagLoop(Tail(tags), key,
                 IF Head(tags).Key = key THEN Head(tags).Value ELSE v)

Tag(k, v) == [Key |-> k, Value |-> v]

(***************************************************************************)
(* run_aws_command.  proc is what subprocess.run did:                      *)
(*   "OSError"        it raised (aws not installed, transport failure)     *)
(*   "TimeoutExpired" it raised after the 15 s timeout                     *)
(*   "nonzero"        it returned with returncode # 0                      *)
(*   "malformed"      returncode 0, stdout is not JSON (json.loads raises) *)
(*   "empty"          returncode 0, stdout is empty: the result is {}      *)
(*   "json"           returncode 0, stdout is the JSON inventory           *)
(* The result is a record: isNone for None, hasKey when the dict has the   *)
(* kind's key, items the list under that key.                              *)
(***************************************************************************)
ProcOutcomes == {"OSError", "TimeoutExpired", "nonzero", "malformed", "empty", "json"}

DataNone == [isNone |-> TRUE, hasKey |-> FALSE, items |-> <<>>]
DataEmptyDict == [isNone |-> FALSE, hasKey |-> FALSE, items |-> <<>>]

\* Mutation: the output of a command that exited with an error is parsed too.
run_aws_command_IgnoreReturnCode(proc, inventory) ==
    IF proc \in {"OSError", "TimeoutExpired"} THEN DataNone
    ELSE IF proc = "empty" THEN DataEmptyDict
    ELSE IF proc = "malformed" THEN DataNone
    ELSE [isNone |-> FALSE, hasKey |-> TRUE, items |-> inventory]

run_aws_command(proc, inventory) ==
    IF proc \in {"OSError", "TimeoutExpired"} THEN DataNone
    ELSE IF proc = "nonzero" THEN DataNone
    ELSE IF proc = "empty" THEN DataEmptyDict
    ELSE IF proc = "malformed" THEN DataNone
    ELSE [isNone |-> FALSE, hasKey |-> TRUE, items |-> inventory]

\* Python's `not data` for the result of run_aws_command: None and {} are falsy.
NotData(data) == data.isNone \/ ~data.hasKey

(***************************************************************************)
(* vpc_ids is None or a list of identifiers.                               *)
(***************************************************************************)
VpcIdsNone == [isNone |-> TRUE, ids |-> <<>>]

Range(s) == {s[i] : i \in 1..Len(s)}

\* `vpc_ids and x not in vpc_ids`: None and [] are falsy.
OutOfScope(vpc_ids, x) ==
    (~vpc_ids.isNone /\ vpc_ids.ids # <<>>) /\ x \notin Range(vpc_ids.ids)

(***************************************************************************)
(* get_vpcs                                                                *)
(***************************************************************************)
\* Mutation: the default VPC is not skipped.
VpcSkipped_NoDefaultCheck(vpc) == FALSE

\* `if vpc.get("IsDefault", False): continue`
VpcSkipped(vpc) == vpc.IsDefault

RECURSIVE VpcLoop(_, _)
VpcLoop(items, acc) ==
    IF items = <<>> THEN acc
    ELSE LET vpc == Head(items)
             name == TagLoop(vpc.Tags, "Name", "")
         IN  IF VpcSkipped(vpc) THEN VpcLoop(Tail(items), acc)
             ELSE IF name # ""
                  THEN VpcLoop(Tail(items),
                               Append(acc, [id |-> vpc.VpcId,
                                            cidr |-> vpc.CidrBlock,
                                            name |-> name]))
                  ELSE VpcLoop(Tail(items), acc)

get_vpcs(data) == IF NotData(data) THEN <<>> ELSE VpcLoop(data.items, <<>>)

(***************************************************************************)
(* get_subnets                                                             *)
(***************************************************************************)
EmptySubnets == [public |-> <<>>, app |-> <<>>, database |-> <<>>]

\* Mutation: the database test comes before the public test.
SubnetTier_DatabaseFirst(name, tagTier) ==
    IF Contains("db", Lower(name)) \/ Contains("database", Lower(name)) THEN "database"
    ELSE IF Contains("public", Lower(name)) THEN "public"
         ELSE tagTier

\* Mutation: only the word "database" marks a database subnet.
SubnetTier_DatabaseWordOnly(name, tagTier) ==
    IF Contains("public", Lower(name)) THEN "public"
    ELSE IF Contains("database", Lower(name)) THEN "database"
         ELSE tagTier

SubnetTier(name, tagTier) ==
    IF Contains("public", Lower(name)) THEN "public"
    ELSE IF Contains("db", Lower(name)) \/ Contains("database", Lower(name))
         THEN "database"
         ELSE tagTier

\* Mutation: unnamed subnets are kept.
SubnetUnnamed_Never(name) == FALSE

\* `if not name: continue`
SubnetUnnamed(name) == name = ""

\* Mutation: a tier that names no bucket falls back to the app bucket.
RECURSIVE SubnetLoop_FallbackApp(_, _, _)
SubnetLoop_FallbackApp(items, vpc_ids, subnets) ==
    IF items = <<>> THEN subnets
    ELSE LET subnet == Head(items)
             name == TagLoop(subnet.Tags, "Name", "")
             tier == SubnetTier(name, TagLoop(subnet.Tags, "Tier", "app"))
             entry == [id |-> subnet.SubnetId, cidr |-> subnet.CidrBlock,
                       az |-> subnet.AvailabilityZone, name |-> name]
             bucket == IF tier \in DOMAIN subnets THEN tier ELSE "app"
         IN  IF OutOfScope(vpc_ids, subnet.VpcId) \/ SubnetUnnamed(name)
             THEN SubnetLoop_FallbackApp(Tail(items), vpc_ids, subnets)
             ELSE SubnetLoop_FallbackApp(Tail(items), vpc_ids,
                                         [subnets EXCEPT ![bucket] = Append(@, entry)])

RECURSIVE SubnetLoop(_, _, _)
SubnetLoop(items, vpc_ids, subnets) ==
    IF items = <<>> THEN subnets
    ELSE LET subnet == Head(items)
             name == TagLoop(subnet.Tags, "Name", "")
             tier == SubnetTier(name, TagLoop(subnet.Tags, "Tier", "app"))
             entry == [id |-> subnet.SubnetId, cidr |-> subnet.CidrBlock,
                       az |-> subnet.AvailabilityZone, name |-> name]
         IN  IF OutOfScope(vpc_ids, subnet.VpcId)
             THEN SubnetLoop(Tail(items), vpc_ids, subnets)
             ELSE IF SubnetUnnamed(name)
             THEN SubnetLoop(Tail(items), vpc_ids, subnets)
             ELSE IF tier \in DOMAIN subnets
             THEN SubnetLoop(Tail(items), vpc_ids,
                             [subnets EXCEPT ![tier] = Append(@, entry)])
             ELSE SubnetLoop(Tail(items), vpc_ids, subnets)

get_subnets(data, vpc_ids) ==
    IF NotData(data) THEN EmptySubnets
    ELSE SubnetLoop(data.items, vpc_ids, EmptySubnets)

(***************************************************************************)
(* get_instances.  data["Reservations"] is a list of reservations, each    *)
(* with a list of instances; the two nested loops visit the instances in   *)
(* reservation order.                                                      *)
(***************************************************************************)
EmptyInstances == [web |-> <<>>, app |-> <<>>]

\* Mutation: the name is not lowered before the test.
InstanceTier_CaseSensitive(name, tagTier) ==
    IF Contains("app", name) THEN "app" ELSE tagTier

InstanceTier(name, tagTier) ==
    IF Contains("app", Lower(name)) THEN "app" ELSE tagTier

\* Mutation: the empty name is displayed as it is.
DisplayName_Raw(name) == name

\* name or "(unnamed)"
DisplayName(name) == IF name # "" THEN name ELSE "(unnamed)"

RECURSIVE InstanceLoop(_, _, _)
InstanceLoop(items, vpc_ids, instances) ==
    IF items = <<>> THEN instances
    ELSE LET instance == Head(items)
             name == TagLoop(instance.Tags, "Name", "")
             tier == InstanceTier(name, TagLoop(instance.Tags, "Tier", "web"))
             entry == [id |-> instance.InstanceId,
                       type |-> instance.InstanceType,
                       state |-> instance.State,
                       private_ip |-> instance.PrivateIpAddress,
                       name |-> DisplayName(name)]
         IN  IF OutOfScope(vpc_ids, instance.VpcId)
             THEN InstanceLoop(Tail(items), vpc_ids, instances)
             ELSE IF tier \in DOMAIN instances
             THEN InstanceLoop(Tail(items), vpc_ids,
                               [instances EXCEPT ![tier] = Append(@, entry)])
             ELSE InstanceLoop(Tail(items), vpc_ids, instances)

RECURSIVE ReservationLoop(_, _, _)
ReservationLoop(reservations, vpc_ids, instances) ==
    IF reservations = <<>> THEN instances
    ELSE ReservationLoop(Tail(reservations), vpc_ids,
                         InstanceLoop(Head(reservations).Instances, vpc_ids, instances))

get_instances(data, vpc_ids) ==
    IF NotData(data) THEN EmptyInstances
    ELSE ReservationLoop(data.items, vpc_ids, EmptyInstances)

(***************************************************************************)
(* get_security_groups.  rule.FromPort is <<>> when the rule has no        *)
(* FromPort key and <<p>> when it has one.                                 *)
(***************************************************************************)
\* `if port:` is false for None and for the integer 0.
PortTruthy(port) == port # <<>> /\ port[1] # 0

RECURSIVE PortLoop(_, _)
PortLoop(rules, ports) ==
    IF rules = <<>> THEN ports
    ELSE LET port == Head(rules).FromPort
         IN  IF PortTruthy(port)
             THEN PortLoop(Tail(rules), Append(ports, Str(port[1])))
             ELSE PortLoop(Tail(rules), ports)

\* Mutation: the group name is compared case-insensitively.
IsDefaultGroup_AnyCase(groupName) == Lower(groupName) = "default"

\* sg.get("GroupName") == "default"
IsDefaultGroup(groupName) == groupName = "default"

RECURSIVE GroupLoop(_, _, _)
GroupLoop(items, vpc_ids, sgs) ==
    IF items = <<>> THEN sgs
    ELSE LET sg == Head(items)
         IN  IF OutOfScope(vpc_ids, sg.VpcId)
             THEN GroupLoop(Tail(items), vpc_ids, sgs)
             ELSE IF IsDefaultGroup(sg.GroupName)
             THEN GroupLoop(Tail(items), vpc_ids, sgs)
             ELSE GroupLoop(Tail(items), vpc_ids,
                            Append(sgs, [id |-> sg.GroupId,
                                         name |-> IF sg.GroupName = None THEN ""
                                                  ELSE sg.GroupName,
                                         ports |-> PortLoop(sg.IpPermissions, <<>>)]))

\* Mutation: a failed describe call is shown as an entry of its own.
get_security_groups_MarkUnavailable(data, vpc_ids) ==
    IF data.isNone THEN <<[id |-> "N/A", name |-> "unavailable", ports |-> <<>>]>>
    ELSE IF NotData(data) THEN <<>>
    ELSE GroupLoop(data.items, vpc_ids, <<>>)

get_security_groups(data, vpc_ids) ==
    IF NotData(data) THEN <<>> ELSE GroupLoop(data.items, vpc_ids, <<>>)

(***************************************************************************)
(* get_internet_gateways                                                   *)
(***************************************************************************)
\* for att in igw.get("Attachments", []): vpc_id = att.get("VpcId", "")
\* Mutation: the first attachment gives the owning VPC.
AttachmentLoop_FirstWins(atts, vpc_id) ==
    IF atts = <<>> THEN vpc_id
    ELSE IF Head(atts).VpcId = None THEN "" ELSE Head(atts).VpcId

RECURSIVE AttachmentLoop(_, _)
AttachmentLoop(atts, vpc_id) ==
    IF atts = <<>> THEN vpc_id
    ELSE AttachmentLoop(Tail(atts),
                        IF Head(atts).VpcId = None THEN "" ELSE Head(atts).VpcId)

\* Mutation: only the owning VPC keeps a gateway.
IgwKept_OwnerOnly(name, vpc_id) == vpc_id # ""

\* `if name or vpc_id`
IgwKept(name, vpc_id) == name # "" \/ vpc_id # ""

RECURSIVE GatewayLoop(_, _, _)
GatewayLoop(items, vpc_ids, igws) ==
    IF items = <<>> THEN igws
    ELSE LET igw == Head(items)
             vpc_id == AttachmentLoop(igw.Attachments, "")
             name == TagLoop(igw.Tags, "Name", "")
         IN  IF OutOfScope(vpc_ids, vpc_id)
             THEN GatewayLoop(Tail(items), vpc_ids, igws)
             ELSE IF IgwKept(name, vpc_id)
             THEN GatewayLoop(Tail(items), vpc_ids,
                              Append(igws, [id |-> igw.InternetGatewayId, name |-> name]))
             ELSE GatewayLoop(Tail(items), vpc_ids, igws)

get_internet_gateways(data, vpc_ids) ==
    IF NotData(data) THEN <<>> ELSE GatewayLoop(data.items, vpc_ids, <<>>)

(***************************************************************************)
(* generate_html, line 204: vpc_ids = [v["id"] for v in vpcs] if vpcs      *)
(* else None                                                               *)
(***************************************************************************)
ScopeOf(vpcs) ==
    IF vpcs # <<>>
    THEN [isNone |-> FALSE, ids |-> [i \in 1..Len(vpcs) |-> vpcs[i].id]]
    ELSE VpcIdsNone

\* Mutation: the last element is taken.
FirstOr_Last(list, placeholder) == IF list # <<>> THEN list[Len(list)] ELSE placeholder

\* Lines 243-244: the representative VPC and gateway.
NoVpc == [name |-> "No VPC", cidr |-> "N/A", id |-> "N/A"]
NoIgw == [id |-> "N/A", name |-> "No IGW"]
FirstOr(list, placeholder) == IF list # <<>> THEN list[1] ELSE placeholder

(***************************************************************************)
(* The inventories the provider may hold.  Identifiers are assigned by     *)
(* position, so they are unique within an inventory, as the provider's     *)
(* are.  A shape is the part of a record the code branches on.             *)
(***************************************************************************)
Letter(i) == CASE i = 1 -> "a" [] i = 2 -> "b" [] i = 3 -> "c" [] OTHER -> "d"

SeqsUpTo(S, n) == UNION {[1..k -> S] : k \in 0..n}

VpcShapes ==
    [IsDefault : BOOLEAN,
     Tags : {<<>>, <<Tag("Name", "main")>>, <<Tag("Name", "")>>}]

MkVpcs(shapes) ==
    [i \in 1..Len(shapes) |->
        [VpcId |-> "vpc-" \o Letter(i), CidrBlock |-> "10." \o Str(i) \o ".0.0/16",
         IsDefault |-> shapes[i].IsDefault, Tags |-> shapes[i].Tags]]

RichVpcs == {MkVpcs(sh) : sh \in SeqsUpTo(VpcShapes, MaxVpcs)}

NamedVpc(default) == [IsDefault |-> default, Tags |-> <<Tag("Name", "main")>>]

\* No VPC; one in-scope VPC vpc-a; only a default VPC; a default VPC and
\* the in-scope VPC vpc-b.
SmallVpcs ==
    {MkVpcs(<<>>), MkVpcs(<<NamedVpc(FALSE)>>), MkVpcs(<<NamedVpc(TRUE)>>),
     MkVpcs(<<NamedVpc(TRUE), NamedVpc(FALSE)>>)}

SubnetTagSets ==
    {<<>>,
     <<Tag("Tier", "public")>>,
     <<Tag("Name", ""), Tag("Tier", "database")>>,
     <<Tag("Name", "My-PUBLIC-db"), Tag("Tier", "database")>>,
     <<Tag("Name", "Public-1")>>,
     <<Tag("Name", "db-subnet-1"), Tag("Tier", "app")>>,
     <<Tag("Name", "DataBase-2"), Tag("Tier", "public")>>,
     <<Tag("Name", "private-1")>>,
     <<Tag("Tier", "internet"), Tag("Name", "private-1")>>,
     <<Tag("Name", "private-1"), Tag("Tier", "public")>>,
     <<Tag("Name", "private-1"), Tag("Tier", "database")>>}

SubnetShapes == [VpcId : {"vpc-a", "vpc-x"}, Tags : SubnetTagSets]

MkSubnets(shapes) ==
    [i \in 1..Len(shapes) |->
        [SubnetId |-> "subnet-" \o Str(i), VpcId |-> shapes[i].VpcId,
         CidrBlock |-> "10.0." \o Str(i) \o ".0/24",
         AvailabilityZone |-> "us-east-1" \o Letter(i),
         Tags |-> shapes[i].Tags]]

RichSubnets == {MkSubnets(sh) : sh \in SeqsUpTo(SubnetShapes, MaxSubnets)}

SubnetShape(vpcId, tags) == [VpcId |-> vpcId, Tags |-> tags]

SmallSubnets ==
    {MkSubnets(<<>>),
     MkSubnets(<<SubnetShape("vpc-a", <<Tag("Name", "public-1")>>),
                 SubnetShape("vpc-x", <<Tag("Name", "db-subnet-1"), Tag("Tier", "app")>>)>>),
     MkSubnets(<<SubnetShape("vpc-a", <<Tag("Tier", "app")>>),
                 SubnetShape("vpc-a", <<Tag("Name", "private-1"), Tag("Tier", "internet")>>),
                 SubnetShape("vpc-a", <<Tag("Name", "private-2")>>)>>)}

InstanceTagSets ==
    {<<>>,
     <<Tag("Tier", "app")>>,
     <<Tag("Tier", "database")>>,
     <<Tag("Name", "")>>,
     <<Tag("Name", "web-1")>>,
     <<Tag("Name", "web-1"), Tag("Tier", "app")>>,
     <<Tag("Name", "My-APP-2"), Tag("Tier", "web")>>,
     <<Tag("Tier", "database"), Tag("Name", "My-APP-2")>>,
     <<Tag("Name", "bastion"), Tag("Tier", "mgmt")>>}

InstanceShapes == [VpcId : {"vpc-a", None}, Tags : InstanceTagSets]

MkInstances(shapes) ==
    [i \in 1..Len(shapes) |->
        [InstanceId |-> "i-" \o Str(i), VpcId |-> shapes[i].VpcId,
         InstanceType |-> "t2.micro", State |-> "running",
         PrivateIpAddress |-> "10.0.1." \o Str(i),
         Tags |-> shapes[i].Tags]]

Reservation(instances) == [Instances |-> instances]

\* The instances in one reservation, or split over two.
Reservations(flat) ==
    {<<Reservation(flat)>>}
      \cup {<<Reservation(SubSeq(flat, 1, k)), Reservation(SubSeq(flat, k + 1, Len(flat)))>> :
               k \in 1..Len(flat)}

RichReservations ==
    {<<>>} \cup UNION {Reservations(MkInstances(sh)) : sh \in SeqsUpTo(InstanceShapes, MaxInstances)}

InstanceShape(vpcId, tags) == [VpcId |-> vpcId, Tags |-> tags]

SmallReservations ==
    {<<>>,
     <<Reservation(MkInstances(<<InstanceShape("vpc-a", <<>>),
                                 InstanceShape("vpc-x", <<Tag("Name", "app-1")>>)>>))>>,
     <<Reservation(MkInstances(<<InstanceShape("vpc-a", <<Tag("Name", "web-1"), Tag("Tier", "db")>>)>>)),
       Reservation(<<>>)>>}

Rule(fromPort) == [FromPort |-> fromPort]

\* No FromPort key (all ports), port 0, ports 22 and 443, ICMP's -1.
RuleShapes == {Rule(<<>>), Rule(<<0>>), Rule(<<22>>), Rule(<<443>>), Rule(<<0 - 1>>)}

GroupShape(vpcId, groupName, rules) ==
    [VpcId |-> vpcId, GroupName |-> groupName, IpPermissions |-> rules]

GroupNameShapes ==
    {GroupShape(v, n, <<Rule(<<22>>)>>) :
        v \in {"vpc-a", None}, n \in {"default", "Default", "web-sg", None}}

MkGroups(shapes) ==
    [i \in 1..Len(shapes) |->
        [GroupId |-> "sg-" \o Str(i), VpcId |-> shapes[i].VpcId,
         GroupName |-> shapes[i].GroupName,
         IpPermissions |-> shapes[i].IpPermissions]]

\* Groups that differ in name and VPC, and one group with every rule list.
RichGroups ==
    {MkGroups(sh) : sh \in SeqsUpTo(GroupNameShapes, MaxGroups)}
      \cup {MkGroups(<<GroupShape("vpc-a", "web-sg", rules)>>) :
               rules \in SeqsUpTo(RuleShapes, MaxRules)}

SmallGroups ==
    {MkGroups(<<>>),
     MkGroups(<<GroupShape("vpc-a", "default", <<>>),
                GroupShape("vpc-a", "web-sg", <<Rule(<<80>>), Rule(<<>>)>>)>>),
     MkGroups(<<GroupShape("vpc-x", "db-sg", <<Rule(<<3306>>)>>)>>)}

Attachment(vpcId) == [VpcId |-> vpcId]

AttachmentLists ==
    {<<>>, <<Attachment("vpc-a")>>, <<Attachment("vpc-b")>>, <<Attachment(None)>>,
     <<Attachment("vpc-a"), Attachment("vpc-b")>>,
     <<Attachment("vpc-b"), Attachment("vpc-a")>>,
     <<Attachment("vpc-a"), Attachment(None)>>}

GatewayShapes ==
    [Attachments : AttachmentLists,
     Tags : {<<>>, <<Tag("Name", "main-igw")>>, <<Tag("Name", "")>>}]

MkGateways(shapes) ==
    [i \in 1..Len(shapes) |->
        [InternetGatewayId |-> "igw-" \o Str(i),
         Attachments |-> shapes[i].Attachments, Tags |-> shapes[i].Tags]]

RichGateways == {MkGateways(sh) : sh \in SeqsUpTo(GatewayShapes, MaxGateways)}

GatewayShape(atts, tags) == [Attachments |-> atts, Tags |-> tags]

SmallGateways ==
    {MkGateways(<<>>),
     MkGateways(<<GatewayShape(<<Attachment("vpc-a")>>, <<>>),
                  GatewayShape(<<>>, <<Tag("Name", "spare-igw")>>)>>),
     MkGateways(<<GatewayShape(<<>>, <<>>),
                  GatewayShape(<<Attachment("vpc-b")>>, <<Tag("Name", "main-igw")>>)>>)}

\* What the five describe calls would return when they succeed.
World(v, s, r, g, i) ==
    [vpcs |-> v, subnets |-> s, reservations |-> r, groups |-> g, gateways |-> i]

(***************************************************************************)
(* State.                                                                  *)
(***************************************************************************)
VARIABLES
    USE_AWS,           \* the module's mode flag
    pc,                \* where the process is
    world,             \* the provider's inventories
    preflight,         \* the pre-flight check main ran and its result
    exit_status,       \* <<>> while the process runs, <<n>> after sys.exit(n)
    server,            \* the HTTPServer has been created
    path,              \* self.path of the current request
    builds,            \* calls of generate_html made for the current request
    response,          \* what do_GET wrote for the current request
    calls,             \* the describe commands issued for the current request
    mode,              \* generate_html's mode label
    data,              \* the result of run_aws_command in each get_* function
    failed,            \* kinds whose describe call failed in this request
    vpcs, vpc_ids, subnets, instances, security_groups, igws,
    total_subnets, total_instances, vpc, igw

vars == <<USE_AWS, pc, world, preflight, exit_status, server, path, builds, response,
          calls, mode, data, failed, vpcs, vpc_ids, subnets, instances,
          security_groups, igws, total_subnets, total_instances, vpc, igw>>

\* The frame of generate_html.
locals == <<calls, mode, data, failed, vpcs, vpc_ids, subnets, instances, security_groups,
            igws, total_subnets, total_instances, vpc, igw>>

\* What main sets up and never changes while it serves.
process == <<USE_AWS, world, preflight, exit_status, server>>

\* The handler of the current request.
request == <<path, builds, response>>

\* A fresh frame of generate_html.
NoData ==
    [vpcs |-> DataNone, subnets |-> DataNone, instances |-> DataNone,
     security_groups |-> DataNone, internet_gateways |-> DataNone]

FreshLocals ==
    /\ calls' = <<>>
    /\ mode' = ""
    /\ data' = NoData
    /\ failed' = {}
    /\ vpcs' = <<>>
    /\ vpc_ids' = VpcIdsNone
    /\ subnets' = EmptySubnets
    /\ instances' = EmptyInstances
    /\ security_groups' = <<>>
    /\ igws' = <<>>
    /\ total_subnets' = 0
    /\ total_instances' = 0
    /\ vpc' = NoVpc
    /\ igw' = NoIgw

InitWith(worlds) ==
    /\ USE_AWS = FALSE
    /\ pc = "main"
    /\ world \in worlds
    /\ preflight = [check |-> "none", ok |-> FALSE]
    /\ exit_status = <<>>
    /\ server = FALSE
    /\ path = ""
    /\ builds = 0
    /\ response = "none"
    /\ calls = <<>>
    /\ mode = ""
    /\ data = NoData
    /\ failed = {}
    /\ vpcs = <<>>
    /\ vpc_ids = VpcIdsNone
    /\ subnets = EmptySubnets
    /\ instances = EmptyInstances
    /\ security_groups = <<>>
    /\ igws = <<>>
    /\ total_subnets = 0
    /\ total_instances = 0
    /\ vpc = NoVpc
    /\ igw = NoIgw

\* One small inventory of each kind, for the runs that vary one kind.
BaseSubnets == MkSubnets(<<SubnetShape("vpc-a", <<Tag("Name", "public-1")>>)>>)
BaseReservations == <<Reservation(MkInstances(<<InstanceShape("vpc-a", <<>>)>>))>>
BaseGroups == MkGroups(<<GroupShape("vpc-a", "web-sg", <<Rule(<<80>>)>>)>>)
BaseGateways == MkGateways(<<GatewayShape(<<Attachment("vpc-a")>>, <<>>)>>)

Init ==
    InitWith({World(v, s, r, g, i) :
                v \in SmallVpcs, s \in SmallSubnets, r \in SmallReservations,
                g \in SmallGroups, i \in SmallGateways})

InitVpcs ==
    InitWith({World(v, BaseSubnets, BaseReservations, BaseGroups, BaseGateways) :
                v \in RichVpcs})

InitSubnets ==
    InitWith({World(v, s, BaseReservations, BaseGroups, BaseGateways) :
                v \in SmallVpcs, s \in RichSubnets})

InitInstances ==
    InitWith({World(v, BaseSubnets, r, BaseGroups, BaseGateways) :
                v \in SmallVpcs, r \in RichReservations})

InitGroups ==
    InitWith({World(v, BaseSubnets, BaseReservations, g, BaseGateways) :
                v \in SmallVpcs, g \in RichGroups})

InitGateways ==
    InitWith({World(v, BaseSubnets, BaseReservations, BaseGroups, i) :
                v \in SmallVpcs, i \in RichGateways})

\* Every VPC inventory with the gateway inventories of several gateways.
InitRepresentative ==
    InitWith({World(v, BaseSubnets, BaseReservations, BaseGroups, i) :
                v \in RichVpcs, i \in SmallGateways})

(***************************************************************************)
(* main: parse the arguments, run the pre-flight check of the mode, exit   *)
(* with status 1 when it fails, else create the server and serve until     *)
(* Ctrl+C.                                                                 *)
(***************************************************************************)
\* Lines 969-974: USE_AWS = args.aws
Main ==
    /\ pc = "main"
    /\ \E aws \in BOOLEAN : USE_AWS' = aws
    /\ pc' = "preflight"
    /\ UNCHANGED <<world, preflight, exit_status, server, request, locals>>

\* What subprocess.run did in check_localstack / check_aws_credentials.
CheckOutcomes == {"OSError", "TimeoutExpired", "nonzero", "zero"}

\* Both checks: `return result.returncode == 0`, and False when run raised.
CheckPassed(proc) == proc = "zero"

\* The check of the selected mode.
SelectedCheck(aws) == IF aws THEN "check_aws_credentials" ELSE "check_localstack"

\* Mutation: the server is created whatever the check returned.
Preflight_ServeAnyway ==
    /\ pc = "preflight"
    /\ \E proc \in CheckOutcomes :
          preflight' = [check |-> SelectedCheck(USE_AWS), ok |-> CheckPassed(proc)]
    /\ server' = TRUE
    /\ pc' = "serving"
    /\ UNCHANGED <<USE_AWS, world, exit_status, request, locals>>

\* Lines 980-1000: the check, then sys.exit(1) or HTTPServer(...).
Preflight ==
    /\ pc = "preflight"
    /\ \E proc \in CheckOutcomes :
          /\ preflight' = [check |-> SelectedCheck(USE_AWS), ok |-> CheckPassed(proc)]
          /\ IF CheckPassed(proc)
             THEN /\ server' = TRUE
                  /\ pc' = "serving"
                  /\ UNCHANGED exit_status
             ELSE /\ exit_status' = <<1>>
                  /\ pc' = "exited"
                  /\ UNCHANGED server
    /\ UNCHANGED <<USE_AWS, world, request, locals>>

\* Lines 1012-1016: KeyboardInterrupt ends serve_forever, also in mid-request.
Interrupt ==
    /\ pc \notin {"main", "preflight", "exited", "stopped"}
    /\ pc' = "stopped"
    /\ FreshLocals
    /\ UNCHANGED <<process, request>>

(***************************************************************************)
(* DashboardHandler.do_GET.  The server is an HTTPServer: serve_forever    *)
(* handles one request at a time, so a request is taken only between two   *)
(* requests.                                                               *)
(***************************************************************************)
RootPaths == {"/", "/index.html"}
Paths == RootPaths \cup {"/favicon.ico"}

\* Mutation: only "/" is the dashboard page.
IsDashboardPath_OnlySlash(p) == p = "/"

\* self.path == "/" or self.path == "/index.html"
IsDashboardPath(p) == p = "/" \/ p = "/index.html"

\* Mutation: a request is taken while another is being served.
DoGetRoot_Threaded ==
    /\ pc \notin {"main", "preflight", "exited", "stopped"}
    /\ \E p \in Paths : IsDashboardPath(p) /\ path' = p
    /\ pc' = "get_vpcs"
    /\ builds' = 1
    /\ response' = "headers"
    /\ FreshLocals
    /\ UNCHANGED process

\* The dashboard page: send the headers and call generate_html.
DoGetRoot ==
    /\ pc = "serving"
    /\ \E p \in Paths : IsDashboardPath(p) /\ path' = p
    /\ pc' = "get_vpcs"
    /\ builds' = 1
    /\ response' = "headers"
    /\ FreshLocals
    /\ UNCHANGED process

\* Any other path: SimpleHTTPRequestHandler.do_GET serves a static file.
DoGetOther ==
    /\ pc = "serving"
    /\ \E p \in Paths : ~IsDashboardPath(p) /\ path' = p
    /\ builds' = 0
    /\ response' = "static"
    /\ UNCHANGED <<pc, process, locals>>

(***************************************************************************)
(* generate_html, one step per statement of lines 203-209.                 *)
(***************************************************************************)
\* The outcomes of subprocess.run that are a failure of the describe call.
ProcFailures == {"OSError", "TimeoutExpired", "nonzero", "malformed"}

Failed(kind, proc) == IF proc \in ProcFailures THEN failed \cup {kind} ELSE failed

\* Mutation: a failed attempt is made once more.
Issued_RetryOnFailure(action, proc) ==
    IF proc \in ProcFailures THEN calls \o <<action, action>> ELSE Append(calls, action)

\* run_aws_command runs the command once, whatever becomes of it.
Issued(action, proc) == Append(calls, action)

GetVpcs ==
    /\ pc = "get_vpcs"
    /\ \E proc \in ProcOutcomes :
          LET d == run_aws_command(proc, world.vpcs)
          IN  /\ data' = [data EXCEPT !.vpcs = d]
              /\ vpcs' = get_vpcs(d)
              /\ failed' = Failed("vpcs", proc)
              /\ calls' = Issued("describe-vpcs", proc)
    /\ pc' = "scope"
    /\ UNCHANGED <<process, request, mode, vpc_ids, subnets, instances,
                   security_groups, igws, total_subnets, total_instances, vpc, igw>>

Scope ==
    /\ pc = "scope"
    /\ vpc_ids' = ScopeOf(vpcs)
    /\ pc' = "get_subnets"
    /\ UNCHANGED <<process, request, calls, mode, data, failed, vpcs, subnets, instances,
                   security_groups, igws, total_subnets, total_instances, vpc, igw>>

GetSubnets ==
    /\ pc = "get_subnets"
    /\ \E proc \in ProcOutcomes :
          LET d == run_aws_command(proc, world.subnets)
          IN  /\ data' = [data EXCEPT !.subnets = d]
              /\ subnets' = get_subnets(d, vpc_ids)
              /\ failed' = Failed("subnets", proc)
              /\ calls' = Issued("describe-subnets", proc)
    /\ pc' = "get_instances"
    /\ UNCHANGED <<process, request, mode, vpcs, vpc_ids, instances,
                   security_groups, igws, total_subnets, total_instances, vpc, igw>>

GetInstances ==
    /\ pc = "get_instances"
    /\ \E proc \in ProcOutcomes :
          LET d == run_aws_command(proc, world.reservations)
          IN  /\ data' = [data EXCEPT !.instances = d]
              /\ instances' = get_instances(d, vpc_ids)
              /\ failed' = Failed("instances", proc)
              /\ calls' = Issued("describe-instances", proc)
    /\ pc' = "get_security_groups"
    /\ UNCHANGED <<process, request, mode, vpcs, vpc_ids, subnets,
                   security_groups, igws, total_subnets, total_instances, vpc, igw>>

GetSecurityGroups ==
    /\ pc = "get_security_groups"
    /\ \E proc \in ProcOutcomes :
          LET d == run_aws_command(proc, world.groups)
          IN  /\ data' = [data EXCEPT !.security_groups = d]
              /\ security_groups' = get_security_groups(d, vpc_ids)
              /\ failed' = Failed("security_groups", proc)
              /\ calls' = Issued("describe-security-groups", proc)
    /\ pc' = "get_internet_gateways"
    /\ UNCHANGED <<process, request, mode, vpcs, vpc_ids, subnets, instances,
                   igws, total_subnets, total_instances, vpc, igw>>

GetInternetGateways ==
    /\ pc = "get_internet_gateways"
    /\ \E proc \in ProcOutcomes :
          LET d == run_aws_command(proc, world.gateways)
          IN  /\ data' = [data EXCEPT !.internet_gateways = d]
              /\ igws' = get_internet_gateways(d, vpc_ids)
              /\ failed' = Failed("internet_gateways", proc)
              /\ calls' = Issued("describe-internet-gateways", proc)
    /\ pc' = "totals"
    /\ UNCHANGED <<process, request, mode, vpcs, vpc_ids, subnets, instances,
                   security_groups, total_subnets, total_instances, vpc, igw>>

\* Mutation: the database bucket is left out of total_subnets.
Totals_WithoutDatabase ==
    /\ pc = "totals"
    /\ total_subnets' = Len(subnets["public"]) + Len(subnets["app"])
    /\ total_instances' = Len(instances["web"]) + Len(instances["app"])
    /\ mode' = (IF USE_AWS THEN "Real AWS" ELSE "LocalStack")
    /\ vpc' = FirstOr(vpcs, NoVpc)
    /\ igw' = FirstOr(igws, NoIgw)
    /\ pc' = "rendered"
    /\ UNCHANGED <<process, request, calls, data, failed, vpcs, vpc_ids, subnets,
                   instances, security_groups, igws>>

\* Lines 211-244: the totals and the representative VPC and gateway.
Totals ==
    /\ pc = "totals"
    /\ total_subnets' = Len(subnets["public"]) + Len(subnets["app"]) + Len(subnets["database"])
    /\ total_instances' = Len(instances["web"]) + Len(instances["app"])
    /\ mode' = (IF USE_AWS THEN "Real AWS" ELSE "LocalStack")
    /\ vpc' = FirstOr(vpcs, NoVpc)
    /\ igw' = FirstOr(igws, NoIgw)
    /\ pc' = "rendered"
    /\ UNCHANGED <<process, request, calls, data, failed, vpcs, vpc_ids, subnets,
                   instances, security_groups, igws>>

\* do_GET writes the page returned by generate_html; the frame is dropped.
WriteHtml ==
    /\ pc = "rendered"
    /\ response' = "html"
    /\ pc' = "serving"
    /\ FreshLocals
    /\ UNCHANGED <<process, path, builds>>

Next ==
    \/ Main
    \/ Preflight
    \/ Interrupt
    \/ DoGetRoot
    \/ DoGetOther
    \/ GetVpcs
    \/ Scope
    \/ GetSubnets
    \/ GetInstances
    \/ GetSecurityGroups
    \/ GetInternetGateways
    \/ Totals
    \/ WriteHtml

Spec == Init /\ [][Next]_vars
SpecVpcs == InitVpcs /\ [][Next]_vars
SpecSubnets == InitSubnets /\ [][Next]_vars
SpecInstances == InitInstances /\ [][Next]_vars
SpecGroups == InitGroups /\ [][Next]_vars
SpecGateways == InitGateways /\ [][Next]_vars
SpecRepresentative == InitRepresentative /\ [][Next]_vars

(***************************************************************************)
(* Vocabulary of the properties.                                           *)
(***************************************************************************)
AfterVpcs ==
    pc \in {"scope", "get_subnets", "get_instances", "get_security_groups",
            "get_internet_gateways", "totals", "rendered"}
AfterScope == AfterVpcs /\ pc # "scope"
AfterSubnets == AfterScope /\ pc # "get_subnets"
AfterInstances == AfterSubnets /\ pc # "get_instances"
AfterGroups == AfterInstances /\ pc # "get_security_groups"
AfterGateways == pc \in {"totals", "rendered"}

Indices(s) == 1..Len(s)
Ids(list) == {list[j].id : j \in Indices(list)}

\* The value of the tag with this key (keys are unique), or the default.
TagOr(tags, key, default) ==
    IF \E i \in Indices(tags) : tags[i].Key = key
    THEN tags[CHOOSE i \in Indices(tags) : tags[i].Key = key].Value
    ELSE default
HasName(tags) == TagOr(tags, "Name", "") # ""

\* The identifiers of the non-default VPCs of an inventory that carry a name.
NamedNonDefault(inv) ==
    {inv[i].VpcId : i \in {k \in Indices(inv) : ~inv[k].IsDefault /\ HasName(inv[k].Tags)}}

\* A record of this VPC passes the scope filter.
InScope(vpcId) == vpc_ids.isNone \/ vpcId \in Range(vpc_ids.ids)

\* The instances of a describe-instances result, in reservation order.
RECURSIVE Flatten(_)
Flatten(reservations) ==
    IF reservations = <<>> THEN <<>>
    ELSE Head(reservations).Instances \o Flatten(Tail(reservations))

\* The owning VPC of a gateway: the VpcId of its last attachment, "" if none.
Owner(gateway) ==
    LET atts == gateway.Attachments
    IN  IF atts = <<>> \/ atts[Len(atts)].VpcId = None THEN "" ELSE atts[Len(atts)].VpcId

SubnetIds == Ids(subnets["public"]) \cup Ids(subnets["app"]) \cup Ids(subnets["database"])
InstanceIds == Ids(instances["web"]) \cup Ids(instances["app"])

(***************************************************************************)
(* C1.  The scope is unrestricted only when describe-vpcs returned no VPC  *)
(* record; when it returned at least one, the scope is the set of the      *)
(* non-default named VPCs, and subnets, instances, security groups and     *)
(* gateways outside that set (all of them when the set is empty) are not   *)
(* rendered.                                                               *)
(***************************************************************************)
C1_TriStateScope ==
    LET returned == data.vpcs.items
        scope == NamedNonDefault(returned)
    IN  /\ AfterScope => (vpc_ids.isNone <=> returned = <<>>)
        /\ AfterScope /\ returned # <<>> => Range(vpc_ids.ids) = scope
        /\ AfterSubnets /\ returned # <<>> =>
              \A i \in Indices(data.subnets.items) :
                 data.subnets.items[i].SubnetId \in SubnetIds
                    => data.subnets.items[i].VpcId \in scope
        /\ AfterInstances /\ returned # <<>> =>
              \A x \in Range(Flatten(data.instances.items)) :
                 x.InstanceId \in InstanceIds => x.VpcId \in scope
        /\ AfterGroups /\ returned # <<>> =>
              \A g \in Range(data.security_groups.items) :
                 g.GroupId \in Ids(security_groups) => g.VpcId \in scope
        /\ AfterGateways /\ returned # <<>> =>
              \A g \in Range(data.internet_gateways.items) :
                 g.InternetGatewayId \in Ids(igws) => Owner(g) \in scope

(***************************************************************************)
(* C2.  The list returned by get_vpcs holds no default VPC and no VPC      *)
(* without a non-empty Name tag, and holds every other VPC of the          *)
(* inventory exactly once, in the inventory's order; a restricted scope    *)
(* is exactly that list's identifiers.                                     *)
(***************************************************************************)
C2_VpcsFiltered ==
    LET inv == data.vpcs.items
        Kept(i) == ~inv[i].IsDefault /\ HasName(inv[i].Tags)
        Pos(j) == CHOOSE i \in Indices(inv) : inv[i].VpcId = vpcs[j].id
    IN  /\ AfterVpcs =>
            /\ \A j \in Indices(vpcs) :
                  \E i \in Indices(inv) :
                     /\ Kept(i)
                     /\ inv[i].VpcId = vpcs[j].id
                     /\ vpcs[j].name = TagOr(inv[i].Tags, "Name", "")
                     /\ vpcs[j].cidr = inv[i].CidrBlock
            /\ \A i \in Indices(inv) :
                  Kept(i) => Cardinality({j \in Indices(vpcs) : vpcs[j].id = inv[i].VpcId}) = 1
            /\ \A j1, j2 \in Indices(vpcs) : j1 < j2 => Pos(j1) < Pos(j2)
        /\ AfterScope /\ ~vpc_ids.isNone =>
              Range(vpc_ids.ids) = {inv[i].VpcId : i \in {k \in Indices(inv) : Kept(k)}}

\* A default or unnamed VPC was dropped and another VPC was kept.
C2_Witness ==
    /\ AfterScope
    /\ Len(data.vpcs.items) = 2
    /\ Len(vpcs) = 1
    /\ ~vpc_ids.isNone

(***************************************************************************)
(* C3.  A failed describe call gives an empty result for its kind, and     *)
(* the kinds whose call succeeded are populated as in the run in which no  *)
(* call failed.                                                            *)
(***************************************************************************)
\* What the call of a kind returned, or would have returned had it not failed.
Unfailed(kind, inventory) ==
    IF kind \in failed THEN run_aws_command("json", inventory) ELSE data[kind]

NoFailVpcs == get_vpcs(Unfailed("vpcs", world.vpcs))
NoFailScope == ScopeOf(NoFailVpcs)

FailedKindsEmpty ==
    /\ "vpcs" \in failed => vpcs = <<>>
    /\ "subnets" \in failed => subnets = EmptySubnets
    /\ "instances" \in failed => instances = EmptyInstances
    /\ "security_groups" \in failed => security_groups = <<>>
    /\ "internet_gateways" \in failed => igws = <<>>

\* The kinds whose call succeeded hold what they hold under this scope.
SucceededKindsAsUnder(scope) ==
    /\ "vpcs" \notin failed => vpcs = NoFailVpcs
    /\ "subnets" \notin failed => subnets = get_subnets(data.subnets, scope)
    /\ "instances" \notin failed => instances = get_instances(data.instances, scope)
    /\ "security_groups" \notin failed =>
          security_groups = get_security_groups(data.security_groups, scope)
    /\ "internet_gateways" \notin failed =>
          igws = get_internet_gateways(data.internet_gateways, scope)

NameOf(record) == TagOr(record.Tags, "Name", "")

HasSub(sub, name) == Contains(sub, Lower(name))

FinalSubnetTier(subnet) ==
    CASE HasSub("public", NameOf(subnet)) -> "public"
      [] ~HasSub("public", NameOf(subnet))
           /\ (HasSub("db", NameOf(subnet)) \/ HasSub("database", NameOf(subnet))) -> "database"
      [] OTHER -> TagOr(subnet.Tags, "Tier", "app")

FinalInstanceTier(instance) ==
    IF HasSub("app", NameOf(instance)) THEN "app" ELSE TagOr(instance.Tags, "Tier", "web")

SubnetCounted(subnet) ==
    /\ InScope(subnet.VpcId)
    /\ HasName(subnet.Tags)
    /\ FinalSubnetTier(subnet) \in {"public", "app", "database"}

InstanceCounted(instance) ==
    /\ InScope(instance.VpcId)
    /\ FinalInstanceTier(instance) \in {"web", "app"}

(***************************************************************************)
(* C10.  total_subnets is the sum of the three subnet bucket lengths and   *)
(* total_instances the sum of the two instance bucket lengths; each is     *)
(* the number of returned records that pass the scope, naming and tier     *)
(* rules, and no record is in two buckets or twice in one.                 *)
(***************************************************************************)
C10_TotalsAreBucketSums ==
    pc = "rendered" =>
       LET subs == data.subnets.items
           insts == Flatten(data.instances.items)
       IN  /\ total_subnets
                = Len(subnets["public"]) + Len(subnets["app"]) + Len(subnets["database"])
           /\ total_instances = Len(instances["web"]) + Len(instances["app"])
           /\ total_subnets = Cardinality({i \in Indices(subs) : SubnetCounted(subs[i])})
           /\ total_instances = Cardinality({i \in Indices(insts) : InstanceCounted(insts[i])})
           /\ Cardinality(SubnetIds) = total_subnets
           /\ Cardinality(InstanceIds) = total_instances

\* Some records were counted and some were dropped, of both kinds.
C10_Witness ==
    /\ pc = "rendered"
    /\ total_subnets >= 1
    /\ total_subnets < Len(data.subnets.items)
    /\ total_instances >= 1
    /\ total_instances < Len(Flatten(data.instances.items))

(***************************************************************************)
(* C4.  An in-scope subnet whose name contains "public" in any letter     *)
(* case is in the public bucket and in no other, whatever its Tier tag     *)
(* and even when the name also contains "db" or "database".                *)
(***************************************************************************)
C4_PublicNameWins ==
    AfterSubnets =>
       \A i \in Indices(data.subnets.items) :
          LET subnet == data.subnets.items[i]
          IN  InScope(subnet.VpcId) /\ HasSub("public", NameOf(subnet))
                 => /\ subnet.SubnetId \in Ids(subnets["public"])
                    /\ subnet.SubnetId \notin Ids(subnets["app"])
                    /\ subnet.SubnetId \notin Ids(subnets["database"])

\* A subnet named "My-PUBLIC-db" and tagged Tier=database, in a restricted scope.
C4_Witness ==
    /\ AfterSubnets
    /\ ~vpc_ids.isNone
    /\ \E i \in Indices(data.subnets.items) :
          LET subnet == data.subnets.items[i]
          IN  /\ NameOf(subnet) = "My-PUBLIC-db"
              /\ TagOr(subnet.Tags, "Tier", "app") = "database"
              /\ subnet.SubnetId \in Ids(subnets["public"])

(***************************************************************************)
(* C5.  A subnet with no Name tag, or with an empty Name value, is in none *)
(* of the three buckets, whatever its Tier tag, its VPC and the scope.     *)
(***************************************************************************)
C5_UnnamedSubnetDropped ==
    AfterSubnets =>
       \A i \in Indices(data.subnets.items) :
          ~HasName(data.subnets.items[i].Tags)
             => data.subnets.items[i].SubnetId \notin SubnetIds

\* An unnamed subnet tagged Tier=public was returned under an unrestricted scope.
C5_Witness ==
    /\ AfterSubnets
    /\ vpc_ids.isNone
    /\ \E i \in Indices(data.subnets.items) :
          /\ data.subnets.items[i].Tags = <<Tag("Tier", "public")>>
          /\ data.subnets.items[i].SubnetId \notin SubnetIds

(***************************************************************************)
(* C6.  An in-scope instance with no Name tag gets the display name        *)
(* "(unnamed)" and is placed in a tier bucket; with neither a Name nor a   *)
(* Tier tag it is in the web bucket under that name.                       *)
(***************************************************************************)
InBucketAs(bucket, id, name) ==
    \E j \in Indices(instances[bucket]) :
       instances[bucket][j].id = id /\ instances[bucket][j].name = name

\* The claim as stated: every unnamed in-scope instance is in a bucket.
C6_UnnamedInstanceAlwaysBucketed ==
    AfterInstances =>
       \A x \in Range(Flatten(data.instances.items)) :
          InScope(x.VpcId) /\ ~HasName(x.Tags)
             => /\ InBucketAs("web", x.InstanceId, "(unnamed)")
                   \/ InBucketAs("app", x.InstanceId, "(unnamed)")
                /\ x.Tags = <<>> => InBucketAs("web", x.InstanceId, "(unnamed)")

\* C6 as amended: the unnamed in-scope instance is in the bucket of its Tier
\* tag (web when it has none) under the name "(unnamed)" when that tier is
\* web or app, and in no bucket when its Tier tag has another value.
C6_UnnamedInstanceKept ==
    AfterInstances =>
       \A x \in Range(Flatten(data.instances.items)) :
          InScope(x.VpcId) /\ ~HasName(x.Tags)
             => LET tier == TagOr(x.Tags, "Tier", "web")
                IN  /\ tier \in {"web", "app"}
                          => /\ InBucketAs(tier, x.InstanceId, "(unnamed)")
                             /\ \A other \in {"web", "app"} \ {tier} :
                                   x.InstanceId \notin Ids(instances[other])
                    /\ tier \notin {"web", "app"} => x.InstanceId \notin InstanceIds
                    /\ x.Tags = <<>> => InBucketAs("web", x.InstanceId, "(unnamed)")

\* An instance without any tag, in a restricted scope, sits in the web bucket.
C6_Witness ==
    /\ AfterInstances
    /\ ~vpc_ids.isNone
    /\ \E x \in Range(Flatten(data.instances.items)) :
          x.Tags = <<>> /\ InBucketAs("web", x.InstanceId, "(unnamed)")

(***************************************************************************)
(* C7.  A security group is in the output exactly when it passes the scope *)
(* filter and its GroupName is not the string "default", compared case-    *)
(* sensitively.                                                            *)
(***************************************************************************)
C7_DefaultGroupExcluded ==
    AfterGroups =>
       \A g \in Range(data.security_groups.items) :
          g.GroupId \in Ids(security_groups)
             <=> (InScope(g.VpcId) /\ g.GroupName # "default")

\* Under a restricted scope, an in-scope group "Default" is in the output and
\* an in-scope group "default" is not.
C7_Witness ==
    /\ AfterGroups
    /\ ~vpc_ids.isNone
    /\ \E g1, g2 \in Range(data.security_groups.items) :
          /\ g1.GroupName = "Default" /\ g1.GroupId \in Ids(security_groups)
          /\ g2.GroupName = "default" /\ InScope(g2.VpcId)
          /\ g2.GroupId \notin Ids(security_groups)

(***************************************************************************)
(* C8.  The ports of a security group in the output are, in rule order,    *)
(* the string form of the FromPort of exactly the inbound rules that have  *)
(* a FromPort, port 0 included.                                            *)
(***************************************************************************)
HasFromPort(rule) == rule.FromPort # <<>>

ExplicitPorts(rules) ==
    LET explicit == SelectSeq(rules, HasFromPort)
    IN  [k \in Indices(explicit) |-> Str(explicit[k].FromPort[1])]

C8_PortsOfExplicitRules ==
    AfterGroups =>
       \A g \in Range(data.security_groups.items) :
          \A j \in Indices(security_groups) :
             security_groups[j].id = g.GroupId
                => security_groups[j].ports = ExplicitPorts(g.IpPermissions)

(***************************************************************************)
(* C9.  For every scope a named gateway is included even without a VPC     *)
(* attachment, an untagged gateway whose owning VPC is in scope is         *)
(* included, and a gateway with neither name nor owning VPC is not.        *)
(***************************************************************************)
\* The claim as stated.
C9_GatewayIncluded_EveryScope ==
    AfterGateways =>
       \A g \in Range(data.internet_gateways.items) :
          LET included == g.InternetGatewayId \in Ids(igws)
          IN  /\ HasName(g.Tags) /\ g.Attachments = <<>> => included
              /\ ~HasName(g.Tags) /\ Owner(g) # "" /\ InScope(Owner(g)) => included
              /\ ~HasName(g.Tags) /\ Owner(g) = "" => ~included

\* C9 as amended: under the unrestricted scope a gateway is included exactly
\* when it has a name or an owning VPC; under a restricted scope exactly when
\* its owning VPC is in the scope, so a named gateway without attachment is
\* then left out.
C9_GatewayIncluded ==
    AfterGateways =>
       \A g \in Range(data.internet_gateways.items) :
          LET included == g.InternetGatewayId \in Ids(igws)
          IN  /\ vpc_ids.isNone => (included <=> (HasName(g.Tags) \/ Owner(g) # ""))
              /\ ~vpc_ids.isNone => (included <=> Owner(g) \in Range(vpc_ids.ids))

\* Under the unrestricted scope a named gateway without attachment is included.
C9_Witness ==
    /\ AfterGateways
    /\ vpc_ids.isNone
    /\ \E g \in Range(data.internet_gateways.items) :
          /\ HasName(g.Tags)
          /\ g.Attachments = <<>>
          /\ g.InternetGatewayId \in Ids(igws)

(***************************************************************************)
(* C11.  The representative VPC is the first VPC of the filtered list, in  *)
(* the provider's order, and the representative gateway the first gateway  *)
(* of the filtered list; for an empty list it is the placeholder ("No      *)
(* VPC", "N/A", "N/A" / "No IGW", "N/A"), so the fields read by the page   *)
(* are always there.                                                       *)
(***************************************************************************)
Least(S) == CHOOSE i \in S : \A k \in S : i <= k

C11_Representatives ==
    pc = "rendered" =>
       LET inv == data.vpcs.items
           keptVpcs == {i \in Indices(inv) : ~inv[i].IsDefault /\ HasName(inv[i].Tags)}
           gws == data.internet_gateways.items
           keptGws == {i \in Indices(gws) : gws[i].InternetGatewayId \in Ids(igws)}
       IN  /\ DOMAIN vpc = {"name", "cidr", "id"}
           /\ DOMAIN igw = {"id", "name"}
           /\ vpcs # <<>> => vpc = vpcs[1] /\ vpc.id = inv[Least(keptVpcs)].VpcId
           /\ vpcs = <<>> => vpc = [name |-> "No VPC", cidr |-> "N/A", id |-> "N/A"]
           /\ igws # <<>> => igw = igws[1] /\ igw.id = gws[Least(keptGws)].InternetGatewayId
           /\ igws = <<>> => igw = [id |-> "N/A", name |-> "No IGW"]

\* Two VPCs passed the filter and the first is shown; of two gateways the
\* first was filtered out, and the second, first of the filtered list, is shown.
C11_Witness ==
    /\ pc = "rendered"
    /\ Len(vpcs) = 2
    /\ vpc.id = "vpc-a"
    /\ Len(data.internet_gateways.items) = 2
    /\ igw.id = "igw-2"

\* Nothing passed the filters; both placeholders are shown.
C11_WitnessPlaceholders ==
    /\ pc = "rendered"
    /\ vpcs = <<>> /\ igws = <<>>
    /\ vpc.name = "No VPC" /\ igw.name = "No IGW"

(***************************************************************************)
(* C12.  A GET on the root path makes exactly one call of generate_html    *)
(* (one snapshot build and render) for that request; a GET on any other    *)
(* path makes none and is served as a static file.                         *)
(***************************************************************************)
InGenerateHtml ==
    pc \in {"get_vpcs", "scope", "get_subnets", "get_instances", "get_security_groups",
            "get_internet_gateways", "totals", "rendered"}

\* The claim as stated: "/" alone builds a snapshot.
C12_OnlyRootPathBuilds ==
    /\ path = "/" => builds = 1
    /\ path \notin {"", "/"} => builds = 0 /\ response = "static" /\ ~InGenerateHtml

\* C12 as amended: a GET on "/" or on "/index.html" makes exactly one call of
\* generate_html, whose page is written after its five describe calls; a GET
\* on any other path makes none and is served as a static file.
C12_DashboardPathsBuild ==
    /\ [](path \in {"/", "/index.html"}
             => /\ builds = 1
                /\ response \in {"headers", "html"}
                /\ response = "html" => ~InGenerateHtml)
    /\ [](path \notin {"", "/", "/index.html"}
             => builds = 0 /\ response = "static" /\ ~InGenerateHtml /\ calls = <<>>)
    /\ [](InGenerateHtml => path \in {"/", "/index.html"} /\ response = "headers")
    /\ [][response' = "html" /\ response # "html"
             => pc = "rendered" /\ Len(calls) = 5 /\ builds' = 1 /\ path' = path]_vars

\* The page of a GET on "/index.html" has been written.
C12_Witness ==
    /\ pc = "serving"
    /\ path = "/index.html"
    /\ response = "html"
    /\ builds = 1

\* A GET on another path has been served as a static file.
C12_WitnessStatic ==
    /\ pc = "serving"
    /\ path = "/favicon.ico"
    /\ response = "static"
    /\ builds = 0

(***************************************************************************)
(* C13.  main runs the pre-flight check of the selected mode; when the     *)
(* check fails the process exits with status 1, the HTTP server is never   *)
(* created, no request is ever served and no describe call ever issued.    *)
(***************************************************************************)
C13_PreflightFailureExits ==
    /\ [](pc \notin {"main", "preflight"}
             => preflight.check
                  = (IF USE_AWS THEN "check_aws_credentials" ELSE "check_localstack"))
    /\ [](preflight.check # "none" /\ ~preflight.ok
             => /\ pc = "exited"
                /\ exit_status = <<1>>
                /\ ~server
                /\ path = "" /\ response = "none" /\ builds = 0
                /\ calls = <<>>)
    /\ [](server => preflight.ok /\ exit_status = <<>>)
    /\ [][pc = "exited" => UNCHANGED vars]_vars

\* The credentials check of --aws failed and the process has exited.
C13_Witness ==
    /\ pc = "exited"
    /\ USE_AWS
    /\ preflight = [check |-> "check_aws_credentials", ok |-> FALSE]
    /\ exit_status = <<1>>

\* The health check of the emulated endpoint failed and the process has exited.
C13_WitnessLocalStack ==
    /\ pc = "exited"
    /\ ~USE_AWS
    /\ preflight = [check |-> "check_localstack", ok |-> FALSE]
    /\ exit_status = <<1>>

(***************************************************************************)
(* C14.  A named subnet whose name does not contain "public": when the     *)
(* name contains "db" or "database" (any case) it is in the database       *)
(* bucket whatever its Tier tag, otherwise its bucket is the value of its  *)
(* Tier tag, "app" when it has none.  Under the unrestricted scope the     *)
(* subnet "db-subnet-1" tagged Tier=app in vpc-x is in the database        *)
(* bucket.  The rule is applied after the scope filter: a subnet of a VPC  *)
(* outside a restricted scope is in no bucket whatever its name.           *)
(***************************************************************************)
OnlyInSubnetBucket(id, bucket) ==
    \A b \in {"public", "app", "database"} : id \in Ids(subnets[b]) <=> b = bucket

\* C14 as stated, for every returned subnet whatever its VPC.
C14_DatabaseNameThenTierTag_EverySubnet ==
    AfterSubnets =>
       \A i \in Indices(data.subnets.items) :
          LET subnet == data.subnets.items[i]
              name == NameOf(subnet)
          IN  name # "" /\ ~HasSub("public", name)
                 => IF HasSub("db", name) \/ HasSub("database", name)
                    THEN OnlyInSubnetBucket(subnet.SubnetId, "database")
                    ELSE OnlyInSubnetBucket(subnet.SubnetId, TagOr(subnet.Tags, "Tier", "app"))

\* C14 amended: the rule holds for the subnets that pass the scope filter.
C14_DatabaseNameThenTierTag ==
    AfterSubnets =>
       \A i \in Indices(data.subnets.items) :
          LET subnet == data.subnets.items[i]
              name == NameOf(subnet)
          IN  InScope(subnet.VpcId) /\ name # "" /\ ~HasSub("public", name)
                 => IF HasSub("db", name) \/ HasSub("database", name)
                    THEN OnlyInSubnetBucket(subnet.SubnetId, "database")
                    ELSE OnlyInSubnetBucket(subnet.SubnetId, TagOr(subnet.Tags, "Tier", "app"))

\* The scenario: no VPC was returned, "db-subnet-1" of vpc-x tagged Tier=app.
C14_Witness ==
    /\ AfterSubnets
    /\ vpc_ids.isNone
    /\ \E i \in Indices(data.subnets.items) :
          LET subnet == data.subnets.items[i]
          IN  /\ subnet.VpcId = "vpc-x"
              /\ subnet.Tags = <<Tag("Name", "db-subnet-1"), Tag("Tier", "app")>>
              /\ subnet.SubnetId \in Ids(subnets["database"])

\* A subnet "DataBase-2" tagged Tier=public is in the database bucket.
C14_WitnessDatabaseWord ==
    /\ AfterSubnets
    /\ \E i \in Indices(data.subnets.items) :
          /\ NameOf(data.subnets.items[i]) = "DataBase-2"
          /\ data.subnets.items[i].SubnetId \in Ids(subnets["database"])

(***************************************************************************)
(* C15.  An in-scope instance whose display name contains "app" in any     *)
(* letter case is in the app bucket whatever its Tier tag; otherwise its   *)
(* bucket is the value of its Tier tag, "web" when it has none.            *)
(***************************************************************************)
OnlyInInstanceBucket(id, bucket) ==
    \A b \in {"web", "app"} : id \in Ids(instances[b]) <=> b = bucket

C15_AppNameThenTierTag ==
    AfterInstances =>
       \A x \in Range(Flatten(data.instances.items)) :
          InScope(x.VpcId)
             => IF HasSub("app", NameOf(x))
                THEN OnlyInInstanceBucket(x.InstanceId, "app")
                ELSE OnlyInInstanceBucket(x.InstanceId, TagOr(x.Tags, "Tier", "web"))

\* An instance "My-APP-2" tagged Tier=database is in the app bucket.
C15_Witness ==
    /\ AfterInstances
    /\ \E x \in Range(Flatten(data.instances.items)) :
          /\ NameOf(x) = "My-APP-2"
          /\ TagOr(x.Tags, "Tier", "web") = "database"
          /\ x.InstanceId \in Ids(instances["app"])

(***************************************************************************)
(* C16.  A subnet whose final tier is none of public, app, database and    *)
(* an instance whose final tier is none of web, app are in no bucket, the  *)
(* build goes on to the totals, and the totals count no such record: a     *)
(* named subnet tagged Tier="internet" whose name has none of "public",    *)
(* "db", "database" is absent from the three subnet buckets.               *)
(***************************************************************************)
UnmatchedSubnets ==
    {i \in Indices(data.subnets.items) :
        FinalSubnetTier(data.subnets.items[i]) \notin {"public", "app", "database"}}

UnmatchedInstances ==
    {i \in Indices(Flatten(data.instances.items)) :
        FinalInstanceTier(Flatten(data.instances.items)[i]) \notin {"web", "app"}}

C16_UnmatchedTierDropped ==
    /\ AfterSubnets =>
          \A i \in UnmatchedSubnets : data.subnets.items[i].SubnetId \notin SubnetIds
    /\ AfterInstances =>
          \A i \in UnmatchedInstances :
             Flatten(data.instances.items)[i].InstanceId \notin InstanceIds
    /\ pc = "rendered" =>
          /\ total_subnets = Cardinality(SubnetIds)
          /\ total_subnets <= Len(data.subnets.items) - Cardinality(UnmatchedSubnets)
          /\ total_instances = Cardinality(InstanceIds)
          /\ total_instances
                <= Len(Flatten(data.instances.items)) - Cardinality(UnmatchedInstances)

\* A rendered build that received an in-scope named subnet tagged
\* Tier="internet" and an in-scope instance tagged Tier="db", and kept neither:
\* of the three subnets one is counted, of the instances none.
C16_Witness ==
    /\ pc = "rendered"
    /\ \E i \in UnmatchedSubnets :
          LET subnet == data.subnets.items[i]
          IN  /\ InScope(subnet.VpcId)
              /\ NameOf(subnet) = "private-1"
              /\ TagOr(subnet.Tags, "Tier", "app") = "internet"
              /\ subnet.SubnetId \notin SubnetIds
    /\ \E i \in UnmatchedInstances :
          LET x == Flatten(data.instances.items)[i]
          IN  InScope(x.VpcId) /\ x.InstanceId \notin InstanceIds
    /\ total_subnets = 1
    /\ Len(data.subnets.items) = 3
    /\ total_instances = 0

(***************************************************************************)
(* C17.  The owning VPC of a gateway is the VpcId of its last attachment   *)
(* in the returned order.  Under a restricted scope that identifier alone  *)
(* decides: the gateway is included exactly when its last attachment       *)
(* carries a VpcId of the scope, so a gateway attached to a VPC of the     *)
(* scope and then to one outside it, or to none, is excluded.  Under the   *)
(* unrestricted scope an untagged gateway is included exactly when its     *)
(* last attachment carries a VpcId.                                        *)
(***************************************************************************)
LastVpcIdIn(atts, allowed) ==
    /\ atts # <<>>
    /\ atts[Len(atts)].VpcId # None
    /\ atts[Len(atts)].VpcId \in allowed

C17_LastAttachmentDecides ==
    AfterGateways =>
       \A g \in Range(data.internet_gateways.items) :
          LET included == g.InternetGatewayId \in Ids(igws)
              scope == Range(vpc_ids.ids)
          IN  /\ ~vpc_ids.isNone => (included <=> LastVpcIdIn(g.Attachments, scope))
              /\ vpc_ids.isNone /\ ~HasName(g.Tags)
                    => (included <=> LastVpcIdIn(g.Attachments, {"vpc-a", "vpc-b"}))

\* Scope {vpc-a}: a gateway attached to vpc-a and then to vpc-b is excluded.
C17_Witness ==
    /\ AfterGateways
    /\ ~vpc_ids.isNone
    /\ \E g \in Range(data.internet_gateways.items) :
          /\ Len(g.Attachments) = 2
          /\ g.Attachments[1].VpcId \in Range(vpc_ids.ids)
          /\ g.Attachments[2].VpcId = "vpc-b"
          /\ g.InternetGatewayId \notin Ids(igws)

\* Scope {vpc-b}: the same gateway is included.
C17_WitnessIncluded ==
    /\ AfterGateways
    /\ ~vpc_ids.isNone
    /\ \E g \in Range(data.internet_gateways.items) :
          /\ Len(g.Attachments) = 2
          /\ g.Attachments[1].VpcId = "vpc-a"
          /\ g.Attachments[1].VpcId \notin Range(vpc_ids.ids)
          /\ g.Attachments[2].VpcId \in Range(vpc_ids.ids)
          /\ g.InternetGatewayId \in Ids(igws)

\* Scope {vpc-a}: a named gateway attached to vpc-a and then to a record
\* without VpcId is excluded.
C17_WitnessNoVpcId ==
    /\ AfterGateways
    /\ ~vpc_ids.isNone
    /\ \E g \in Range(data.internet_gateways.items) :
          /\ Len(g.Attachments) = 2
          /\ g.Attachments[1].VpcId \in Range(vpc_ids.ids)
          /\ g.Attachments[2].VpcId = None
          /\ HasName(g.Tags)
          /\ g.InternetGatewayId \notin Ids(igws)

(***************************************************************************)
(* C18.  One execution of generate_html runs five describe commands, one   *)
(* per kind and once each whether the command succeeds or fails, in the    *)
(* order VPCs, subnets, instances, security groups, internet gateways.     *)
(* The scope is computed after the VPC command alone, and the totals and   *)
(* the page after all five.                                                *)
(***************************************************************************)
DescribeOrder ==
    <<"describe-vpcs", "describe-subnets", "describe-instances",
      "describe-security-groups", "describe-internet-gateways">>

\* The number of describe commands run when generate_html is at this place.
IssuedAt(place) ==
    CASE place = "get_vpcs" -> 0
      [] place \in {"scope", "get_subnets"} -> 1
      [] place = "get_instances" -> 2
      [] place = "get_security_groups" -> 3
      [] place = "get_internet_gateways" -> 4
      [] place \in {"totals", "rendered"} -> 5
      [] OTHER -> 0

C18_FiveCallsInOrder ==
    /\ [](calls = SubSeq(DescribeOrder, 1, IssuedAt(pc)))
    /\ [][calls' # calls
             => \/ calls' = <<>> /\ ~InGenerateHtml'
                \/ /\ Len(calls) < Len(DescribeOrder)
                   /\ calls' = Append(calls, DescribeOrder[Len(calls) + 1])]_vars
    /\ [][vpc_ids' # vpc_ids /\ InGenerateHtml' => calls = <<"describe-vpcs">>]_vars
    /\ [][(total_subnets' # total_subnets \/ total_instances' # total_instances \/ mode' # mode)
             /\ InGenerateHtml'
             => calls = DescribeOrder /\ calls' = calls]_vars
    /\ [][response' = "html" /\ response # "html" => calls = DescribeOrder]_vars

\* A build whose five commands all failed has run each exactly once.
C18_Witness ==
    /\ pc = "rendered"
    /\ failed = {"vpcs", "subnets", "instances", "security_groups", "internet_gateways"}
    /\ calls = DescribeOrder

\* A build whose five commands all succeeded on non-empty inventories.
C18_WitnessSuccess ==
    /\ pc = "rendered"
    /\ failed = {}
    /\ calls = DescribeOrder
    /\ vpcs # <<>> /\ total_subnets >= 1 /\ total_instances >= 1
    /\ security_groups # <<>> /\ igws # <<>>

(***************************************************************************)
(* The snapshot handed to the page, and the snapshot that generate_html    *)
(* builds from five describe results.                                      *)
(***************************************************************************)
Snapshot ==
    [mode |-> mode, vpcs |-> vpcs, subnets |-> subnets, instances |-> instances,
     security_groups |-> security_groups, igws |-> igws,
     total_subnets |-> total_subnets, total_instances |-> total_instances,
     vpc |-> vpc, igw |-> igw]

SnapshotOf(d, aws) ==
    LET v == get_vpcs(d.vpcs)
        ids == ScopeOf(v)
        s == get_subnets(d.subnets, ids)
        n == get_instances(d.instances, ids)
        g == get_internet_gateways(d.internet_gateways, ids)
    IN  [mode |-> IF aws THEN "Real AWS" ELSE "LocalStack",
         vpcs |-> v, subnets |-> s, instances |-> n,
         security_groups |-> get_security_groups(d.security_groups, ids),
         igws |-> g,
         total_subnets |-> Len(s["public"]) + Len(s["app"]) + Len(s["database"]),
         total_instances |-> Len(n["web"]) + Len(n["app"]),
         vpc |-> IF v # <<>> THEN v[1] ELSE NoVpc,
         igw |-> IF g # <<>> THEN g[1] ELSE NoIgw]

Kinds == {"vpcs", "subnets", "instances", "security_groups", "internet_gateways"}

(***************************************************************************)
(* C19.  Requests are served one at a time: once a dashboard request has   *)
(* run a describe command, no other request is taken and no command of     *)
(* another request runs until its page is written (or the server is        *)
(* stopped).  A request starts from fresh locals, the mode flag does not   *)
(* change once the server runs, and the snapshot of a request is the       *)
(* function of the five results of that request and of the mode flag.      *)
(***************************************************************************)
C19_OneRequestAtATime ==
    /\ [][InGenerateHtml
             => /\ path' = path /\ builds' = builds
                /\ pc' # "get_vpcs"
                /\ pc' \in {"stopped", "serving"} \/ InGenerateHtml'
                /\ pc' = "serving" => pc = "rendered" /\ response' = "html"]_vars
    /\ [][pc' = "get_vpcs"
             => pc = "serving" /\ calls' = <<>> /\ data' = NoData /\ failed' = {}]_vars
    /\ [][pc' = "serving" /\ InGenerateHtml
             => calls' = <<>> /\ data' = NoData /\ failed' = {}]_vars
    /\ [][server => USE_AWS' = USE_AWS]_vars
    /\ [](pc = "rendered" => Snapshot = SnapshotOf(data, USE_AWS))

\* A dashboard request has been answered, the server waits for the next
\* request and nothing of the build is left.
C19_Witness ==
    /\ pc = "serving"
    /\ response = "html"
    /\ path = "/"
    /\ builds = 1
    /\ calls = <<>> /\ data = NoData /\ failed = {}
    /\ world.vpcs # <<>> /\ world.subnets # <<>>

\* A request whose snapshot shows every kind, in the real-AWS mode.
C19_WitnessRendered ==
    /\ pc = "rendered"
    /\ USE_AWS
    /\ mode = "Real AWS"
    /\ calls = DescribeOrder
    /\ vpcs # <<>> /\ total_subnets >= 1 /\ total_instances >= 1

(***************************************************************************)
(* C20.  For each kind, the results of the other four being the same, the  *)
(* snapshot built when the describe command of the kind fails is the       *)
(* snapshot built when it succeeds and returns no record of the kind.      *)
(* For VPCs both give the unrestricted scope and the "No VPC" placeholder. *)
(***************************************************************************)
\* The result of a describe command that succeeds with no record.
ZeroRecords == run_aws_command("json", <<>>)

C20_FailureLooksLikeZeroRecords ==
    pc = "rendered" =>
       /\ \A k \in failed :
             /\ data[k] = DataNone
             /\ Snapshot = SnapshotOf([data EXCEPT ![k] = ZeroRecords], USE_AWS)
       /\ \A k \in Kinds :
             data[k] = ZeroRecords
                => Snapshot = SnapshotOf([data EXCEPT ![k] = DataNone], USE_AWS)
       /\ ("vpcs" \in failed \/ data.vpcs = ZeroRecords)
             => vpc_ids.isNone /\ vpc = NoVpc

\* The security group command failed in a world that has groups to show,
\* while the other kinds were read and are on the page.
C20_Witness ==
    /\ pc = "rendered"
    /\ failed = {"security_groups"}
    /\ world.groups # <<>>
    /\ vpcs # <<>> /\ total_subnets >= 1 /\ igws # <<>>

\* The VPC command failed; the other kinds are shown unfiltered.
C20_WitnessVpcs ==
    /\ pc = "rendered"
    /\ failed = {"vpcs"}
    /\ world.vpcs # <<>>
    /\ vpc_ids.isNone /\ vpc = NoVpc
    /\ total_subnets >= 1

\* A command succeeded and returned no record of its kind.
C20_WitnessZero ==
    /\ pc = "rendered"
    /\ failed = {}
    /\ data.subnets = ZeroRecords
    /\ vpcs # <<>>

====
